---- MODULE Spec2Model ----
(***************************************************************************)
(* A model of stupl.py (janLo/htw-schedule): the parsing of the schedule   *)
(* tables, joinTables, filterLectures, make_ical and the glue of process.  *)
(*                                                                         *)
(* Strings are sequences of one-character strings, so that upper(),        *)
(* strip(), split() and the three regular expressions of make_ical are     *)
(* computed as Python computes them.  A Python dict is a function, a list  *)
(* a sequence, a raised exception a value of the variable error.           *)
(***************************************************************************)
EXTENDS Integers, Sequences, FiniteSets, TLC

VARIABLES
    pc,          \* the statement of process / make_ical that runs next
    feed,        \* what the HTW server answers: one soup per course
    argv,        \* the command line
    args,        \* argparse's namespace (start, stop, lectures, blacklist, ical, html)
    soups,       \* process: soups = my_map(get_soups, args.courses)
    week,        \* process: the loop variable of `for week in range(...)`
    tables,      \* process: tables = [iterateTable(...) for s in soups]
    table,       \* process: table = joinTables(tables)
    table_data,  \* process: the filtered schedules, one per week
    times,       \* make_ical: the dict of parsed time slots
    now,         \* make_ical: the value datetime.now() returned
    begin_date,  \* make_ical: the Monday of the week being exported
    calendar,    \* make_ical: the vevents added to the iCalendar so far
    output,      \* what process printed
    error,       \* the exception that ended the run, if any
    pool,        \* make_async_map: p = Pool(cnt), the task each worker runs (0: idle)
    taskqueue,   \* the tasks apply_async handed to the pool that no worker took yet
    results,     \* map_async_delayed: the AsyncResults, in the order of the calls
    elapsed,     \* the time slept so far, in units of 0.1 s
    applied_at,  \* the time at which each task was handed to the pool
    got          \* map_async_delayed: the list map(sync_get, results) builds

poolvars == <<pool, taskqueue, results, elapsed, applied_at, got>>

vars == <<pc, feed, argv, args, soups, week, tables, table, table_data,
          times, now, begin_date, calendar, output, error, pool, taskqueue,
          results, elapsed, applied_at, got>>

(***************************************************************************)
(* Strings                                                                 *)
(***************************************************************************)
Lowers == <<"a","b","c","d","e","f","g","h","i","j","k","l","m",
            "n","o","p","q","r","s","t","u","v","w","x","y","z">>
Uppers == <<"A","B","C","D","E","F","G","H","I","J","K","L","M",
            "N","O","P","Q","R","S","T","U","V","W","X","Y","Z">>
DigitChars == <<"0","1","2","3","4","5","6","7","8","9">>

\* unicode.upper on one character
UpperChar(c) ==
    IF \E i \in DOMAIN Lowers : Lowers[i] = c
    THEN Uppers[CHOOSE i \in DOMAIN Lowers : Lowers[i] = c]
    ELSE c

\* unicode.upper
Upper(s) == [i \in DOMAIN s |-> UpperChar(s[i])]

\* map(unicode.upper, list)
UpperAll(list) == [i \in DOMAIN list |-> Upper(list[i])]

\* x in list
InList(x, list) == \E i \in DOMAIN list : list[i] = x

IsSpace(c) == c \in {" ", "\t", "\n", "\r"}

\* unicode.strip: leading and trailing whitespace removed
Strip(s) ==
    IF \A i \in DOMAIN s : IsSpace(s[i]) THEN <<>>
    ELSE LET lo == CHOOSE i \in DOMAIN s :
                       /\ ~IsSpace(s[i])
                       /\ \A j \in 1..(i - 1) : IsSpace(s[j])
             hi == CHOOSE i \in DOMAIN s :
                       /\ ~IsSpace(s[i])
                       /\ \A j \in (i + 1)..Len(s) : IsSpace(s[j])
         IN  SubSeq(s, lo, hi)

\* str.split(sep) for a one-character separator: the segments between the
\* occurrences of sep, empty segments kept
RECURSIVE Split(_, _)
Split(s, sep) ==
    IF \A i \in DOMAIN s : s[i] # sep THEN <<s>>
    ELSE LET p == CHOOSE i \in DOMAIN s :
                      /\ s[i] = sep
                      /\ \A j \in 1..(i - 1) : s[j] # sep
         IN  <<SubSeq(s, 1, p - 1)>> \o Split(SubSeq(s, p + 1, Len(s)), sep)

IsDigit(c) == \E i \in DOMAIN DigitChars : DigitChars[i] = c
DigitVal(c) == (CHOOSE i \in DOMAIN DigitChars : DigitChars[i] = c) - 1
IsDigits(s) == Len(s) > 0 /\ \A i \in DOMAIN s : IsDigit(s[i])

\* int() of a string of digits
RECURSIVE ToInt(_)
ToInt(s) ==
    IF Len(s) = 0 THEN 0
    ELSE 10 * ToInt(SubSeq(s, 1, Len(s) - 1)) + DigitVal(s[Len(s)])

\* one decimal digit as a character
DigitChar(n) == DigitChars[n + 1]

\* "%d" % n for n >= 0
RECURSIVE IntStr(_)
IntStr(n) ==
    IF n < 10 THEN <<DigitChar(n)>>
    ELSE IntStr(n \div 10) \o <<DigitChar(n % 10)>>

\* "%02d" % n and "%04d" % n, as datetime.__str__ pads its fields
Pad2(n) == <<DigitChar((n \div 10) % 10), DigitChar(n % 10)>>
Pad4(n) == Pad2(n \div 100) \o Pad2(n % 100)

\* the positions at which pat occurs in s
Occurrences(s, pat) ==
    {i \in 1..(Len(s) - Len(pat) + 1) : SubSeq(s, i, i + Len(pat) - 1) = pat}

(***************************************************************************)
(* The regular expressions of make_ical.  A match is the sequence of its   *)
(* groups; no match is the empty sequence (Python's None).                 *)
(***************************************************************************)
SepDash == <<" ", "-", " ">>

\* room_regex = ^(.*) - (.*)$ : the first group is greedy, so the split is
\* at the last " - "
room_regex(s) ==
    LET occ == Occurrences(s, SepDash)
    IN  IF occ = {} THEN <<>>
        ELSE LET p == CHOOSE i \in occ : \A j \in occ : j <= i
             IN  <<SubSeq(s, 1, p - 1), SubSeq(s, p + 3, Len(s))>>

\* time_regex = ^(\d+)\.(\d+) - (\d+)\.(\d+)$
time_regex(s) ==
    LET occ == Occurrences(s, SepDash)
    IN  IF Cardinality(occ) # 1 THEN <<>>
        ELSE LET p == CHOOSE i \in occ : TRUE
                 l == Split(SubSeq(s, 1, p - 1), ".")
                 r == Split(SubSeq(s, p + 3, Len(s)), ".")
             IN  IF /\ Len(l) = 2 /\ Len(r) = 2
                    /\ IsDigits(l[1]) /\ IsDigits(l[2])
                    /\ IsDigits(r[1]) /\ IsDigits(r[2])
                 THEN <<l[1], l[2], r[1], r[2]>>
                 ELSE <<>>

\* calweek_regex = ^(\d+)\. KW$
calweek_regex(s) ==
    LET tail == <<".", " ", "K", "W">>
        n == Len(s) - Len(tail)
    IN  IF n >= 1 /\ SubSeq(s, n + 1, Len(s)) = tail /\ IsDigits(SubSeq(s, 1, n))
        THEN <<SubSeq(s, 1, n)>>
        ELSE <<>>

(***************************************************************************)
(* datetime and dateutil.relativedelta.  A datetime is a record            *)
(* [year, month, day, hour, minute, second]; a relativedelta is a record   *)
(* that holds only the keyword arguments it was built with: the absolute   *)
(* fields month, day, hour, minute, second, the relative field days        *)
(* (weeks=w is days=7*w) and weekday with its nth (MO(-1) is weekday 0,    *)
(* nth -1).                                                                *)
(***************************************************************************)
IsLeap(y) == (y % 4 = 0) /\ ((y % 100 # 0) \/ (y % 400 = 0))

DaysInMonth(y, m) ==
    IF m = 2 THEN (IF IsLeap(y) THEN 29 ELSE 28)
    ELSE IF m \in {4, 6, 9, 11} THEN 30 ELSE 31

DaysBeforeYear(y) ==
    365 * (y - 1) + ((y - 1) \div 4) - ((y - 1) \div 100) + ((y - 1) \div 400)

RECURSIVE DaysBeforeMonth(_, _)
DaysBeforeMonth(y, m) ==
    IF m = 1 THEN 0 ELSE DaysBeforeMonth(y, m - 1) + DaysInMonth(y, m - 1)

\* date.toordinal(): 1 is 0001-01-01
ToOrdinal(dt) == DaysBeforeYear(dt.year) + DaysBeforeMonth(dt.year, dt.month) + dt.day

\* date.fromordinal()
FromOrdinal(n) ==
    LET y == CHOOSE yy \in ((n \div 366))..((n \div 365) + 1) :
                 DaysBeforeYear(yy) < n /\ n <= DaysBeforeYear(yy + 1)
        r == n - DaysBeforeYear(y)
        m == CHOOSE mm \in 1..12 :
                 DaysBeforeMonth(y, mm) < r /\ r <= DaysBeforeMonth(y, mm) + DaysInMonth(y, mm)
    IN  [year |-> y, month |-> m, day |-> r - DaysBeforeMonth(y, m)]

\* datetime.weekday(): Monday is 0
Weekday(dt) == (ToOrdinal(dt) + 6) % 7

\* dt + timedelta(days=n)
AddDays(dt, n) ==
    IF n = 0 THEN dt
    ELSE LET d == FromOrdinal(ToOrdinal(dt) + n)
         IN  [dt EXCEPT !.year = d.year, !.month = d.month, !.day = d.day]

Min(a, b) == IF a <= b THEN a ELSE b

Has(rec, key) == key \in DOMAIN rec

\* dt.replace(**repl) of relativedelta.__radd__: the absolute fields
RdReplace(dt, rd) ==
    LET month == IF Has(rd, "month") THEN rd.month ELSE dt.month
        day == Min(DaysInMonth(dt.year, month),
                   IF Has(rd, "day") THEN rd.day ELSE dt.day)
    IN  [year |-> dt.year, month |-> month, day |-> day,
         hour |-> IF Has(rd, "hour") THEN rd.hour ELSE dt.hour,
         minute |-> IF Has(rd, "minute") THEN rd.minute ELSE dt.minute,
         second |-> IF Has(rd, "second") THEN rd.second ELSE dt.second]

\* datetime.replace raises ValueError for an hour or a minute out of range
RdRaises(dt, rd) ==
    LET r == RdReplace(dt, rd)
    IN  ~(r.hour \in 0..23 /\ r.minute \in 0..59 /\ r.second \in 0..59)

\* the jump of relativedelta.__radd__ to the nth weekday, counted from the
\* date the relative fields gave
WeekdayJumpWrong(ret, rd) ==
    AddDays(ret, (7 - Weekday(ret) + rd.weekday) % 7)

WeekdayJump(ret, rd) ==
    LET jumpdays == (IF rd.nth < 0 THEN -rd.nth ELSE rd.nth) - 1
    IN  IF rd.nth > 0
        THEN AddDays(ret, 7 * jumpdays + ((7 - Weekday(ret) + rd.weekday) % 7))
        ELSE AddDays(ret, -(7 * jumpdays + ((Weekday(ret) - rd.weekday) % 7)))

\* dt + relativedelta: absolute fields replaced, then the relative days
\* added, then the weekday rule applied
RdAdd(dt, rd) ==
    LET ret == AddDays(RdReplace(dt, rd), IF Has(rd, "days") THEN rd.days ELSE 0)
    IN  IF Has(rd, "weekday") THEN WeekdayJump(ret, rd) ELSE ret

\* str(datetime) with microsecond 0: YYYY-MM-DD HH:MM:SS
DateStr(dt) ==
    Pad4(dt.year) \o <<"-">> \o Pad2(dt.month) \o <<"-">> \o Pad2(dt.day) \o <<" ">>
    \o Pad2(dt.hour) \o <<":">> \o Pad2(dt.minute) \o <<":">> \o Pad2(dt.second)

(***************************************************************************)
(* Raised exceptions.  An operator that can raise has a companion that     *)
(* gives the exception ("none" when it returns).                           *)
(***************************************************************************)
NoError == [exc |-> "none"]
Raise(exc) == [exc |-> exc]
RaiseWith(exc, arg) == [exc |-> exc, arg |-> arg]

\* the first exception of a sequence of outcomes, in order
RECURSIVE FirstError(_)
FirstError(outcomes) ==
    IF outcomes = <<>> THEN NoError
    ELSE IF Head(outcomes).exc # "none" THEN Head(outcomes)
    ELSE FirstError(Tail(outcomes))

\* the concatenation of a sequence of sequences
RECURSIVE Concat(_)
Concat(seqs) == IF seqs = <<>> THEN <<>> ELSE Head(seqs) \o Concat(Tail(seqs))

\* the keys of a dict in the order the interpreter iterates them (one fixed
\* order per key set)
RECURSIVE KeySeq(_)
KeySeq(keys) ==
    IF keys = {} THEN <<>>
    ELSE LET k == CHOOSE x \in keys : TRUE IN <<k>> \o KeySeq(keys \ {k})

\* range(0, 5): the weekdays Monday to Friday
Days == 0..4

(***************************************************************************)
(* Parsing one table.  A cell is given as the elements its text splits     *)
(* into at "\n\n", each element as the lines it splits into at "\n"; a row *)
(* as its first td (the time) and the tds after it; a table as the text of *)
(* the first td of its first tr (the calendar week) and the rows after it. *)
(***************************************************************************)
Dash == <<"-">>

\* splitCell: the outcome for one element
splitElem(elem) ==
    LET lines == [i \in DOMAIN elem |-> Strip(elem[i])]
    IN  IF Len(elem) # 3 THEN [exc |-> "none", val |-> <<>>]
        ELSE IF lines[3] = Dash THEN [exc |-> "none", val |-> <<>>]
        ELSE LET parts == Split(lines[2], " ")
             IN  IF Len(parts) # 2 THEN Raise("ValueError")
                 ELSE [exc |-> "none",
                       val |-> <<[short |-> parts[1], typ |-> parts[2],
                                  name |-> lines[1], room |-> lines[3]]>>]

splitCellError(cell) == FirstError([i \in DOMAIN cell |-> splitElem(cell[i])])

\* splitCell: the lecture dicts of a cell
splitCell(cell) ==
    Concat([i \in DOMAIN cell |->
                IF splitElem(cell[i]).exc = "none" THEN splitElem(cell[i]).val ELSE <<>>])

\* iterateRow raises IndexError for a row of fewer than 6 tds, and whatever
\* splitCell raises
iterateRowError(row) ==
    FirstError([x \in 1..5 |->
                    IF x > Len(row.cells) THEN Raise("IndexError")
                    ELSE splitCellError(row.cells[x])])

iterateRow(row) ==
    [time |-> row.time, days |-> [x \in 1..5 |-> splitCell(row.cells[x])]]

iterateTableError(t) ==
    FirstError([r \in DOMAIN t.rows |-> iterateRowError(t.rows[r])])

\* iterateTable: days[x][time] is assigned row after row, so a time that
\* labels two rows keeps the lectures of the last one
iterateTable(t) ==
    LET rowdata == [r \in DOMAIN t.rows |-> iterateRow(t.rows[r])]
        keys == {rowdata[r].time : r \in DOMAIN rowdata}
        last(time) == CHOOSE r \in DOMAIN rowdata :
                          /\ rowdata[r].time = time
                          /\ \A q \in DOMAIN rowdata : rowdata[q].time = time => q <= r
    IN  [order |-> [r \in DOMAIN rowdata |-> rowdata[r].time],
         data |-> [x \in 1..5 |-> [time \in keys |-> rowdata[last(time)].days[x]]],
         week |-> t.week]

(***************************************************************************)
(* joinTables                                                              *)
(***************************************************************************)
Rooms(lectures) == {lectures[i].room : i \in DOMAIN lectures}

\* the lecture dict after lecture['source'] = idx
Tagged(lecture, idx) ==
    [k \in DOMAIN lecture \cup {"source"} |-> IF k = "source" THEN idx ELSE lecture[k]]

\* the inner loop of joinTables: the lectures of one source, day and time
\* appended to the list collected so far, unless their room is in it
\* (a variant that compares whole lecture dicts instead of rooms)
RECURSIVE joinSlotByLecture(_, _, _)
joinSlotByLecture(collected, lectures, idx) ==
    IF lectures = <<>> THEN collected
    ELSE IF \E i \in DOMAIN collected : collected[i] = Tagged(Head(lectures), idx)
         THEN joinSlotByLecture(collected, Tail(lectures), idx)
         ELSE joinSlotByLecture(Append(collected, Tagged(Head(lectures), idx)),
                                Tail(lectures), idx)

RECURSIVE joinSlot(_, _, _)
joinSlot(collected, lectures, idx) ==
    IF lectures = <<>> THEN collected
    ELSE IF Head(lectures).room \in Rooms(collected)
         THEN joinSlot(collected, Tail(lectures), idx)
         ELSE joinSlot(Append(collected, Tagged(Head(lectures), idx)), Tail(lectures), idx)

\* days[x][time] after the sources data_list[1..n] have been joined
RECURSIVE joinUpTo(_, _, _, _)
joinUpTo(data_list, n, x, time) ==
    IF n = 0 THEN <<>>
    ELSE LET before == joinUpTo(data_list, n - 1, x, time)
             day == data_list[n].data[x]
         IN  IF time \in DOMAIN day THEN joinSlot(before, day[time], n - 1) ELSE before

\* joinTables (None for an empty list is the empty record)
joinTables(data_list) ==
    IF Len(data_list) = 0 THEN [none |-> TRUE]
    ELSE [order |-> data_list[1].order,
          data |-> [x \in 1..5 |->
                       [time \in UNION {DOMAIN data_list[i].data[x] : i \in DOMAIN data_list} |->
                            joinUpTo(data_list, Len(data_list), x, time)]],
          week |-> data_list[1].week]

\* the lecture dicts joinTables appended are those of its argument, so the
\* argument's dicts carry the source afterwards: a lecture is appended iff
\* its room was not collected from an earlier source or earlier in its list
joinTablesArgument(data_list) ==
    [i \in DOMAIN data_list |->
        [data_list[i] EXCEPT !.data =
            [x \in 1..5 |->
                [time \in DOMAIN data_list[i].data[x] |->
                    LET lectures == data_list[i].data[x][time]
                        before == joinUpTo(data_list, i - 1, x, time)
                    IN  [k \in DOMAIN lectures |->
                            IF lectures[k].room \in
                                   Rooms(before) \cup Rooms(SubSeq(lectures, 1, k - 1))
                            THEN lectures[k]
                            ELSE Tagged(lectures[k], i - 1)]]]]]

(***************************************************************************)
(* filterLectures                                                          *)
(***************************************************************************)
ALL == <<"A", "L", "L">>

\* the teacher of a lecture as filterLectures takes it:
\* lecture['room'].split('-')[1].strip().upper()
teacherOf(room) ==
    LET parts == Split(room, "-")
    IN  IF Len(parts) < 2 THEN Raise("IndexError")
        ELSE [exc |-> "none", val |-> Upper(Strip(parts[2]))]

\* the body of the innermost loop: "keep", "drop", or the exception
\* (lectures and teacher_blacklist are the uppercased lists)
filterVerdict(lecture, lectures, teacher_blacklist) ==
    IF InList(Upper(lecture.short), lectures)
       \/ (Len(lectures) > 0 /\ lectures[1] = ALL)
    THEN IF teacherOf(lecture.room).exc # "none" THEN "IndexError"
         ELSE IF InList(teacherOf(lecture.room).val, teacher_blacklist) THEN "drop"
         ELSE "keep"
    ELSE IF Len(lectures) = 0 THEN "IndexError"   \* lectures[0] of an empty list
    ELSE "drop"

filterLecturesError(data, lectures, teacher_blacklist) ==
    LET L == UpperAll(lectures)
        B == UpperAll(teacher_blacklist)
        slot(x, t) ==
            LET time == data.order[t]
            IN  IF time \notin DOMAIN data.data[x] THEN <<Raise("KeyError")>>
                ELSE [k \in DOMAIN data.data[x][time] |->
                         IF filterVerdict(data.data[x][time][k], L, B) = "IndexError"
                         THEN Raise("IndexError") ELSE NoError]
    IN  FirstError(Concat([x \in 1..5 |->
                              Concat([t \in DOMAIN data.order |-> slot(x, t)])]))

KeepSeq(lectures, L, B) ==
    SelectSeq(lectures, LAMBDA lecture : filterVerdict(lecture, L, B) = "keep")

\* (a variant that makes a key only for the times that keep a lecture)
filterLecturesSparse(data, lectures, teacher_blacklist) ==
    LET L == UpperAll(lectures)
        B == UpperAll(teacher_blacklist)
    IN  [order |-> data.order,
         data |-> [x \in 1..5 |->
                      [time \in {tm \in {data.order[t] : t \in DOMAIN data.order} :
                                      KeepSeq(data.data[x][tm], L, B) # <<>>} |->
                           KeepSeq(data.data[x][time], L, B)]],
         week |-> data.week]

filterLectures(data, lectures, teacher_blacklist) ==
    LET L == UpperAll(lectures)
        B == UpperAll(teacher_blacklist)
    IN  [order |-> data.order,
         data |-> [x \in 1..5 |->
                      [time \in {data.order[t] : t \in DOMAIN data.order} |->
                           KeepSeq(data.data[x][time], L, B)]],
         week |-> data.week]

(***************************************************************************)
(* make_ical                                                               *)
(***************************************************************************)
None == [none |-> TRUE]

\* rec with rec[key] = val added
Put(rec, key, val) ==
    [k \in DOMAIN rec \cup {key} |-> IF k = key THEN val ELSE rec[k]]

Newline == <<"\n">>

\* cat_map; "Ue" stands for the one character U+00DC
cat_map(c) ==
    IF c = "V" THEN <<"V","o","r","l","e","s","u","n","g">>
    ELSE IF c = "Ue" THEN <<"Ue","b","u","n","g">>
    ELSE IF c = "P" THEN <<"P","r","a","k","t","i","k","u","m">>
    ELSE <<>>

\* uuid.uuid3(uuid.NAMESPACE_DNS, name): the name-based hash, taken to be
\* injective
uuid3(name) == [namespace |-> "NAMESPACE_DNS", name |-> name]

\* the name the uid is hashed from: '%s %s' % (location, dtstart)
uidNameNoStart(location, dtstart) == location

uidName(location, dtstart) == location \o <<" ">> \o DateStr(dtstart)

\* the first loop of make_ical: the parsed start and end of every time of
\* data[0]['order'], as the relativedeltas the code builds
parseTime(time) ==
    LET g == time_regex(time)
    IN  [start |-> [hour |-> ToInt(g[1]), minute |-> ToInt(g[2])],
         end |-> [hour |-> ToInt(g[3]), minute |-> ToInt(g[4])]]

\* (a variant whose message names the first time of order)
parseTimesErrorFirstKey(data) ==
    IF Len(data) = 0 THEN Raise("IndexError")
    ELSE IF \E t \in DOMAIN data[1].order : time_regex(data[1].order[t]) = <<>>
         THEN RaiseWith("CannotParseTime", data[1].order[1])
         ELSE NoError

parseTimesError(data) ==
    IF Len(data) = 0 THEN Raise("IndexError")
    ELSE FirstError([t \in DOMAIN data[1].order |->
                        IF time_regex(data[1].order[t]) = <<>>
                        THEN RaiseWith("CannotParseTime", data[1].order[t])
                        ELSE NoError])

parseTimes(data) ==
    [time \in {data[1].order[t] : t \in DOMAIN data[1].order} |-> parseTime(time)]

\* begin_date of the first week: datetime.now() + relativedelta(month=1,
\* day=4, weekday=MO(-1), weeks=+(calweek - 1), hour=0, minute=0, second=0)
firstMonday(today, calweek) ==
    RdAdd(today, [month |-> 1, day |-> 4, weekday |-> 0, nth |-> -1,
                  days |-> 7 * (calweek - 1),
                  hour |-> 0, minute |-> 0, second |-> 0])

\* the body of the innermost loop of make_ical: the vevent of one entry, or
\* the exception raised while building it
vevent(entry, day_date, time, timesDict, sources) ==
    IF time \notin DOMAIN timesDict THEN Raise("KeyError")
    ELSE IF RdRaises(day_date, timesDict[time].start)
            \/ RdRaises(day_date, timesDict[time].end) THEN Raise("ValueError")
    ELSE IF Len(entry.typ) = 0 THEN Raise("IndexError")
    ELSE IF ~Has(entry, "source") THEN Raise("KeyError")
    ELSE IF entry.source + 1 > Len(sources) THEN Raise("IndexError")
    ELSE IF room_regex(entry.room) = <<>> THEN Raise("AttributeError")  \* event.location
    ELSE
    LET dtstart == RdAdd(day_date, timesDict[time].start)
        dtend == RdAdd(day_date, timesDict[time].end)
        category == cat_map(entry.typ[1])
        cat == IF category = <<>> THEN <<>>
               ELSE <<" ", "(">> \o category \o <<")">>
        room_match == room_regex(entry.room)
        location == Strip(room_match[1])
        teacher == room_match[2]
        base == [dtstart |-> dtstart,
                 dtend |-> dtend,
                 location |-> location,
                 summary |-> entry.name \o cat,
                 description |-> teacher \o Newline \o entry.typ \o Newline
                                 \o sources[entry.source + 1],
                 uid |-> uuid3(uidName(location, dtstart))]
    IN  [exc |-> "none",
         val |-> IF category = <<>> THEN base ELSE Put(base, "category", category)]

\* the loops over the days, the times and the entries of one week, in order
weekOutcomes(weekData, monday, timesDict, sources) ==
    Concat([x \in 1..5 |->
        LET day_data == weekData.data[x]
            day_date == RdAdd(monday, [days |-> x - 1])
            keys == KeySeq(DOMAIN day_data)
        IN  Concat([t \in DOMAIN keys |->
                [k \in DOMAIN day_data[keys[t]] |->
                    vevent(day_data[keys[t]][k], day_date, keys[t], timesDict, sources)]])])

(***************************************************************************)
(* process: the state machine.  pc names the statement that runs next.     *)
(***************************************************************************)
\* an exception ends the run; its traceback names the statement that raised
\* before make_async_map is called there is no pool and no task
NoPool ==
    /\ pool = <<>>
    /\ taskqueue = <<>>
    /\ results = <<>>
    /\ elapsed = 0
    /\ applied_at = <<>>
    /\ got = <<>>

Failed(exc) ==
    /\ pc' = "failed"
    /\ error' = Put(exc, "at", pc)

\* if args.start > args.stop: args.stop = args.start
orderWeeksSwapped(raw) ==
    IF raw.start > raw.stop THEN [raw EXCEPT !.start = raw.stop, !.stop = raw.start]
    ELSE raw

orderWeeks(raw) ==
    IF raw.start > raw.stop THEN [raw EXCEPT !.stop = raw.start] ELSE raw

\* args = parser.parse_args(), then the week range is put in order.  argparse
\* rejects a start or stop outside choices=xrange(1, 5).
ParseArgs(choices) ==
    /\ pc = "args"
    /\ \E raw \in choices :
          /\ argv' = raw
          /\ IF raw.start \notin 1..4 \/ raw.stop \notin 1..4
             THEN /\ Failed(Raise("ArgumentError"))
                  /\ args' = args
             ELSE /\ args' = orderWeeks(raw)
                  /\ pc' = "fetch"
                  /\ error' = error
    /\ UNCHANGED poolvars
    /\ UNCHANGED <<feed, soups, week, tables, table, table_data,
                   times, now, begin_date, calendar, output>>

\* my_map = map, unless len(args.courses) > 8
AsyncThreshold == 8

\* soups = my_map(get_soups, args.courses) with my_map = map: one soup per
\* course, in the order of the courses; then the week loop starts
Fetch ==
    /\ pc = "fetch"
    /\ Len(feed) <= AsyncThreshold
    /\ soups' = feed
    /\ week' = args.start - 1
    /\ pc' = IF args.start - 1 < args.stop THEN "iterate" ELSE "output"
    /\ UNCHANGED poolvars
    /\ UNCHANGED <<feed, argv, args, tables, table, table_data,
                   times, now, begin_date, calendar, output, error>>

(***************************************************************************)
(* make_async_map and the function map_async_delayed it returns.  The      *)
(* workers of the pool run beside the main thread: a worker takes the      *)
(* oldest task of the queue, and the tasks end in any order.               *)
(***************************************************************************)
MaxProcesses == 5

\* (a variant without the cap)
processesUncapped(cnt) == cnt

\* if cnt > 5: cnt = 5
processes(cnt) == IF cnt > MaxProcesses THEN MaxProcesses ELSE cnt

\* my_map = make_async_map(len(args.courses)): p = Pool(cnt)
MakeAsyncMap ==
    /\ pc = "fetch"
    /\ Len(feed) > AsyncThreshold
    /\ pool' = [w \in 1..processes(Len(feed)) |-> 0]
    /\ pc' = "apply"
    /\ UNCHANGED <<taskqueue, results, elapsed, applied_at, got>>
    /\ UNCHANGED <<feed, argv, args, soups, week, tables, table, table_data,
                   times, now, begin_date, calendar, output, error>>

\* async_apply(item) for the next item of the iterable:
\* res = p.apply_async(func, [item])
AsyncApply ==
    /\ pc = "apply"
    /\ Len(results) < Len(feed)
    /\ taskqueue' = Append(taskqueue, Len(results) + 1)
    /\ results' = Append(results, [ready |-> FALSE])
    /\ applied_at' = Append(applied_at, elapsed)
    /\ pc' = "sleep"
    /\ UNCHANGED <<pool, elapsed, got>>
    /\ UNCHANGED <<feed, argv, args, soups, week, tables, table, table_data,
                   times, now, begin_date, calendar, output, error>>

\* time.sleep(0.1); return res: then the next item, or map(sync_get, results)
Sleep ==
    /\ pc = "sleep"
    /\ elapsed' = elapsed + 1
    /\ pc' = IF Len(results) < Len(feed) THEN "apply" ELSE "get"
    /\ UNCHANGED <<pool, taskqueue, results, applied_at, got>>
    /\ UNCHANGED <<feed, argv, args, soups, week, tables, table, table_data,
                   times, now, begin_date, calendar, output, error>>

\* an idle worker of the pool takes the oldest task of the queue
WorkerTake ==
    /\ taskqueue # <<>>
    /\ \E w \in DOMAIN pool :
          /\ pool[w] = 0
          /\ pool' = [pool EXCEPT ![w] = Head(taskqueue)]
    /\ taskqueue' = Tail(taskqueue)
    /\ UNCHANGED <<results, elapsed, applied_at, got>>
    /\ UNCHANGED <<pc, feed, argv, args, soups, week, tables, table, table_data,
                   times, now, begin_date, calendar, output, error>>

\* get_soups(item) returns in a worker: the AsyncResult of the task is set
WorkerDone ==
    /\ \E w \in DOMAIN pool :
          /\ pool[w] # 0
          /\ results' = [results EXCEPT ![pool[w]] =
                             [ready |-> TRUE, value |-> feed[pool[w]]]]
          /\ pool' = [pool EXCEPT ![w] = 0]
    /\ UNCHANGED <<taskqueue, elapsed, applied_at, got>>
    /\ UNCHANGED <<pc, feed, argv, args, soups, week, tables, table, table_data,
                   times, now, begin_date, calendar, output, error>>

\* sync_get(item) for the next AsyncResult: item.get() waits until it is set
SyncGet ==
    /\ pc = "get"
    /\ Len(got) < Len(results)
    /\ results[Len(got) + 1].ready
    /\ got' = Append(got, results[Len(got) + 1].value)
    /\ UNCHANGED <<pool, taskqueue, results, elapsed, applied_at>>
    /\ UNCHANGED <<pc, feed, argv, args, soups, week, tables, table, table_data,
                   times, now, begin_date, calendar, output, error>>

\* soups = the list map_async_delayed returns; then the week loop starts
AsyncReturn ==
    /\ pc = "get"
    /\ Len(got) = Len(results)
    /\ soups' = got
    /\ week' = args.start - 1
    /\ pc' = IF args.start - 1 < args.stop THEN "iterate" ELSE "output"
    /\ UNCHANGED poolvars
    /\ UNCHANGED <<feed, argv, args, tables, table, table_data,
                   times, now, begin_date, calendar, output, error>>

\* tables = [iterateTable(s['table'][week]) for s in soups]
IterateTablesError ==
    FirstError([s \in DOMAIN soups |->
                   IF week + 1 > Len(soups[s].table) THEN Raise("IndexError")
                   ELSE iterateTableError(soups[s].table[week + 1])])

IterateTables ==
    /\ pc = "iterate"
    /\ \E exc \in {IterateTablesError} :
       IF exc.exc # "none"
       THEN /\ Failed(exc)
            /\ UNCHANGED tables
       ELSE /\ tables' = [s \in DOMAIN soups |-> iterateTable(soups[s].table[week + 1])]
            /\ pc' = "join"
            /\ error' = error
    /\ UNCHANGED poolvars
    /\ UNCHANGED <<feed, argv, args, soups, week, table, table_data,
                   times, now, begin_date, calendar, output>>

\* table = joinTables(tables)
JoinTables ==
    /\ pc = "join"
    /\ table' = joinTables(tables)
    /\ tables' = joinTablesArgument(tables)
    /\ pc' = "filter"
    /\ UNCHANGED poolvars
    /\ UNCHANGED <<feed, argv, args, soups, week, table_data,
                   times, now, begin_date, calendar, output, error>>

\* filtered = filterLectures(table, lectures, blacklist);
\* table_data.append(filtered); then the next week, or the output
FilterLectures ==
    /\ pc = "filter"
    /\ \E exc \in {IF Has(table, "none") THEN Raise("TypeError")
                  ELSE filterLecturesError(table, args.lectures, args.blacklist)} :
           IF exc.exc # "none"
           THEN /\ Failed(exc)
                /\ UNCHANGED <<table_data, week>>
           ELSE /\ table_data' = Append(table_data,
                                        filterLectures(table, args.lectures, args.blacklist))
                /\ week' = week + 1
                /\ pc' = IF week + 1 < args.stop THEN "iterate" ELSE "output"
                /\ error' = error
    /\ UNCHANGED poolvars
    /\ UNCHANGED <<feed, argv, args, soups, tables, table,
                   times, now, begin_date, calendar, output>>

Headlines == [s \in DOMAIN soups |-> soups[s].headline]

\* if args.ical: make_ical(table_data, headlines) is entered; otherwise the
\* HTML page of make_html is printed (as text unless args.html)
Output ==
    /\ pc = "output"
    /\ IF args.ical
       THEN /\ pc' = "ical_times"
            /\ output' = output
       ELSE /\ pc' = "done"
            /\ output' = [mode |-> IF args.html THEN "html" ELSE "text",
                          headlines |-> Headlines,
                          data |-> table_data,
                          startweek |-> args.start]
    /\ UNCHANGED poolvars
    /\ UNCHANGED <<feed, argv, args, soups, week, tables, table, table_data,
                   times, now, begin_date, calendar, error>>

\* make_ical, its first loop: times[time] for every time of data[0]['order']
IcalParseTimes ==
    /\ pc = "ical_times"
    /\ \E exc \in {parseTimesError(table_data)} :
       IF exc.exc # "none"
       THEN /\ Failed(exc)
            /\ UNCHANGED <<times, week>>
       ELSE /\ times' = parseTimes(table_data)
            /\ week' = 0
            /\ pc' = "ical_week"
            /\ error' = error
    /\ UNCHANGED poolvars
    /\ UNCHANGED <<feed, argv, args, soups, tables, table, table_data,
                   now, begin_date, calendar, output>>

\* make_ical, one pass of `for week in data`: the week's Monday, its vevents,
\* and the return statement that ends the pass
IcalWeek(clock) ==
    /\ pc = "ical_week"
    /\ week < Len(table_data)
    /\ \E today \in clock :
        LET wk == table_data[week + 1]
            calweek == calweek_regex(wk.week)
        IN  IF begin_date = None /\ calweek = <<>>
            THEN /\ Failed(RaiseWith("CannotParseCalweek", wk.week))
                 /\ UNCHANGED <<now, begin_date, calendar, output, week>>
            ELSE /\ now' = (IF begin_date = None THEN today ELSE now)
                 /\ begin_date' = (IF begin_date = None
                                   THEN firstMonday(today, ToInt(calweek[1]))
                                   ELSE RdAdd(begin_date, [days |-> 7]))
                 /\ \E outcomes \in {weekOutcomes(wk, begin_date', times, Headlines)} :
                    IF FirstError(outcomes).exc # "none"
                    THEN /\ Failed(FirstError(outcomes))
                         /\ UNCHANGED <<calendar, output, week>>
                    ELSE /\ calendar' = calendar \o [i \in DOMAIN outcomes |-> outcomes[i].val]
                         /\ output' = [mode |-> "ical", vevents |-> calendar']
                         /\ week' = week
                         /\ pc' = "done"
                         /\ error' = error
    /\ UNCHANGED poolvars
    /\ UNCHANGED <<feed, argv, args, soups, tables, table, table_data, times>>

(***************************************************************************)
(* The inputs: the pages the server holds and the command lines.           *)
(***************************************************************************)
\* the most courses a command line names, and the most lecture elements the
\* pages of all courses hold together
MaxSources == 2
MaxLectures == 2

\* the weekdays whose cells hold lectures (the other cells are empty)
FeedDays == {4}

Time1 == <<"8",".","0","0"," ","-"," ","9",".","3","0">>
Time2 == <<"9",".","5","0"," ","-"," ","1","1",".","2","0">>
KW3 == <<"3", ".", " ", "K", "W">>
KW4 == <<"4", ".", " ", "K", "W">>

RoomRh == <<"R", " ", "-", " ", "h">>
RoomSk == <<"S", " ", "-", " ", "k">>

\* the elements of a cell: name, "<short> <typ>", room
ElemCsRh == << <<"M">>, <<"c", "s", " ", "V">>, RoomRh >>
ElemMaRh == << <<"M">>, <<"m", "a", " ", "P">>, RoomRh >>
ElemCsSk == << <<"M">>, <<"c", "s", " ", "V">>, RoomSk >>
ElemPool == {ElemCsRh, ElemMaRh, ElemCsSk}

EmptyCells == [x \in 1..5 |-> <<>>]

\* a table without lectures: its calendar week and its rows
EmptyTable(kw, rowTimes) ==
    [week |-> kw,
     rows |-> [r \in DOMAIN rowTimes |-> [time |-> rowTimes[r], cells |-> EmptyCells]]]

TableShapes == {EmptyTable(KW3, <<Time1, Time2>>), EmptyTable(KW4, <<Time2>>)}

\* the headline of the page of the n-th course
Headline(n) == <<"G">> \o IntStr(n)

StrAll == <<"a", "l", "l">>
StrCs == <<"c", "s">>
StrH == <<"h">>

RawArgs(start, stop, lectures, blacklist, ical, html) ==
    [start |-> start, stop |-> stop, lectures |-> lectures, blacklist |-> blacklist,
     ical |-> ical, html |-> html]

\* the command line for the first week, printed as HTML: the lectures cs,
\* without those of teacher h
TableArgs == {RawArgs(1, 1, <<StrCs>>, <<StrH>>, FALSE, TRUE)}

\* the number of elements in all cells of the feed
RECURSIVE Sum(_)
Sum(ns) == IF ns = <<>> THEN 0 ELSE Head(ns) + Sum(Tail(ns))

TableElems(t) ==
    Sum([r \in DOMAIN t.rows |-> Sum([x \in 1..5 |-> Len(t.rows[r].cells[x])])])

FeedElems == Sum([s \in DOMAIN feed |-> Sum([w \in DOMAIN feed[s].table |->
                                                TableElems(feed[s].table[w])])])

\* the server publishes the page of one more course, with one week's table
PublishCourse ==
    /\ pc = "args"
    /\ Len(feed) < MaxSources
    /\ \E t \in TableShapes :
          feed' = Append(feed, [headline |-> Headline(Len(feed)), table |-> <<t>>])
    /\ UNCHANGED poolvars
    /\ UNCHANGED <<pc, argv, args, soups, week, tables, table, table_data,
                   times, now, begin_date, calendar, output, error>>

\* a lecture is entered in a cell of the page published last
PublishLecture ==
    /\ pc = "args"
    /\ Len(feed) > 0
    /\ FeedElems < MaxLectures
    /\ \E r \in DOMAIN feed[Len(feed)].table[1].rows, x \in FeedDays, elem \in ElemPool :
          feed' = [feed EXCEPT ![Len(feed)].table[1].rows[r].cells[x + 1] =
                                   Append(@, elem)]
    /\ UNCHANGED poolvars
    /\ UNCHANGED <<pc, argv, args, soups, week, tables, table, table_data,
                   times, now, begin_date, calendar, output, error>>

Init ==
    /\ pc = "args"
    /\ feed = <<>>
    /\ argv = None
    /\ args = None
    /\ soups = None
    /\ week = 0
    /\ tables = None
    /\ table = None
    /\ table_data = <<>>
    /\ times = None
    /\ now = None
    /\ begin_date = None
    /\ calendar = <<>>
    /\ output = None
    /\ error = NoError
    /\ NoPool

\* one run of process over the pages of the courses, the schedule printed as
\* a table
Next ==
    \/ PublishCourse
    \/ PublishLecture
    \/ (Len(feed) > 0 /\ ParseArgs(TableArgs))
    \/ Fetch
    \/ IterateTables
    \/ JoinTables
    \/ FilterLectures
    \/ Output

Spec == Init /\ [][Next]_vars

(***************************************************************************)
(* Runs of process with --ical over pages that hold four weeks.            *)
(***************************************************************************)
TimeBad == <<"9",".","5","0","-","1","1",".","2","0">>
KWBad == <<"K", "W", " ", "3">>

RoomRk == <<"R", " ", "-", " ", "k">>
RoomR1h == <<"R", "-", "1", " ", "-", " ", "h">>
RoomR == <<"R">>
RoomR_h == <<"R", "-", "h">>

ElemCsRk == << <<"M">>, <<"c", "s", " ", "V">>, RoomRk >>
ElemMaR1h == << <<"M">>, <<"m", "a", " ", "P">>, RoomR1h >>
ElemMaR == << <<"M">>, <<"m", "a", " ", "P">>, RoomR >>
ElemCsR_h == << <<"M">>, <<"c", "s", " ", "V">>, RoomR_h >>
ElemNoLecture == << <<"M">>, <<"c", "s", " ", "V">>, Dash >>
ElemTwoLines == << <<"M">>, <<"c", "s", " ", "V">> >>

\* a row with lectures on Monday and on Friday
Row(time, monday, friday) ==
    [time |-> time, cells |-> <<monday, <<>>, <<>>, <<>>, friday>>]

\* the calendar week of the w-th table of a page
KW(n) == IntStr(n) \o <<".", " ", "K", "W">>

\* the pages of two courses that share the lecture in R with teacher h; the
\* second course has a lecture in R with teacher k at the same time
PlainFeed ==
    <<[headline |-> Headline(0),
       table |-> [w \in 1..4 |->
                     [week |-> KW(w + 2),
                      rows |-> <<Row(Time1, <<ElemCsRh>>, <<ElemNoLecture, ElemTwoLines>>),
                                 Row(Time2, <<>>, <<ElemMaR1h>>)>>]]],
      [headline |-> Headline(1),
       table |-> [w \in 1..4 |->
                     [week |-> KW(w + 2),
                      rows |-> <<Row(Time1, <<ElemCsRh, ElemCsRk>>, <<>>),
                                 Row(Time2, <<>>, <<ElemCsRh>>)>>]]]>>

\* one course whose tables have the rows rowTimes, the calendar weeks
\* kw[1..4] and the lectures elems on the Monday of every row
OneCourse(kw, rowTimes, elems) ==
    <<[headline |-> Headline(0),
       table |-> [w \in 1..4 |->
                     [week |-> kw[w],
                      rows |-> [r \in DOMAIN rowTimes |-> Row(rowTimes[r], elems, <<>>)]]]]>>

GoodWeeks == [w \in 1..4 |-> KW(w + 2)]
BadWeeks == [w \in 1..4 |-> KWBad]

ExportFeeds ==
    {PlainFeed,
     OneCourse(GoodWeeks, <<Time1, TimeBad>>, <<ElemCsRh>>),
     OneCourse(BadWeeks, <<Time1>>, <<ElemCsRh>>),
     OneCourse(BadWeeks, <<TimeBad>>, <<ElemCsRh>>),
     OneCourse(GoodWeeks, <<Time1>>, <<ElemCsR_h, ElemMaR>>)}

ExportFilters ==
    {<< <<StrAll>>, <<>> >>,
     << <<ALL>>, <<StrH>> >>,
     << <<StrCs>>, <<>> >>,
     << <<>>, <<>> >>}

\* the values of --start and --stop a command line may give
WeekChoices == 0..5

ExportArgs ==
    {RawArgs(start, stop, f[1], f[2], ical, FALSE) :
        start \in WeekChoices, stop \in WeekChoices, f \in ExportFilters, ical \in BOOLEAN}

DateTime(year, month, day, hour, minute, second) ==
    [year |-> year, month |-> month, day |-> day,
     hour |-> hour, minute |-> minute, second |-> second]

\* the times at which the export runs
ExportClock == {DateTime(2024, 2, 29, 13, 37, 5), DateTime(2026, 11, 1, 0, 0, 0)}

InitExport ==
    /\ pc = "args"
    /\ feed \in ExportFeeds
    /\ argv = None
    /\ args = None
    /\ soups = None
    /\ week = 0
    /\ tables = None
    /\ table = None
    /\ table_data = <<>>
    /\ times = None
    /\ now = None
    /\ begin_date = None
    /\ calendar = <<>>
    /\ output = None
    /\ error = NoError
    /\ NoPool

NextExport ==
    \/ ParseArgs(ExportArgs)
    \/ Fetch
    \/ IterateTables
    \/ JoinTables
    \/ FilterLectures
    \/ Output
    \/ IcalParseTimes
    \/ IcalWeek(ExportClock)

SpecExport == InitExport /\ [][NextExport]_vars

(***************************************************************************)
(* make_ical alone, over one week with one lecture, for every calendar     *)
(* week, weekday and time slot, at any time of any year.                   *)
(***************************************************************************)
\* the largest calendar week a table is labelled with
MaxCalweek == 53

Slot(text, h1, m1, h2, m2) == [text |-> text, h1 |-> h1, m1 |-> m1, h2 |-> h2, m2 |-> m2]

SlotPool ==
    {Slot(Time1, 8, 0, 9, 30),
     Slot(Time2, 9, 50, 11, 20),
     Slot(<<"0",".","0","0"," ","-"," ","2","3",".","5","9">>, 0, 0, 23, 59)}

Lecture(short, typ, name, room, source) ==
    [short |-> short, typ |-> typ, name |-> name, room |-> room, source |-> source]

\* the filtered schedule of calendar week n with one lecture on weekday d
\* (0 is Monday) at the time slot
OneLectureWeek(n, d, slot) ==
    [order |-> <<slot.text>>,
     data |-> [x \in 1..5 |->
                  [time \in {slot.text} |->
                      IF x = d + 1
                      THEN <<Lecture(StrCs, <<"V">>, <<"M">>, RoomRh, 0)>>
                      ELSE <<>>]],
     week |-> KW(n)]

Years == 2019..2026

\* the first days of January, the leap day, a day in summer and the last day
\* of the year, early and late in the day
DateClock ==
    {DateTime(y, md[1], md[2], hms[1], hms[2], hms[3]) :
        y \in Years,
        md \in {<<1, 1>>, <<1, 3>>, <<1, 4>>, <<1, 5>>, <<2, 28>>, <<7, 31>>, <<12, 31>>},
        hms \in {<<0, 0, 0>>, <<23, 59, 59>>}}
    \cup {DateTime(y, 2, 29, 12, 0, 0) : y \in {yy \in Years : IsLeap(yy)}}

InitDate ==
    /\ pc = "ical_times"
    /\ feed = <<[headline |-> Headline(0), table |-> <<>>]>>
    /\ argv = RawArgs(1, 1, <<ALL>>, <<>>, TRUE, FALSE)
    /\ args = argv
    /\ soups = feed
    /\ week = 1
    /\ tables = None
    /\ table = None
    /\ \E n \in 1..MaxCalweek, d \in Days, slot \in SlotPool :
          table_data = <<OneLectureWeek(n, d, slot)>>
    /\ times = None
    /\ now = None
    /\ begin_date = None
    /\ calendar = <<>>
    /\ output = None
    /\ error = NoError
    /\ NoPool

NextDate ==
    \/ IcalParseTimes
    \/ IcalWeek(DateClock)

SpecDate == InitDate /\ [][NextDate]_vars

(***************************************************************************)
(* Runs of process over the pages of few and of many courses: the pages of *)
(* more than eight courses are fetched by the pool.                        *)
(***************************************************************************)
\* the largest number of courses on a command line
MaxCourses == 9

\* the room and the lecture that only the n-th course (from 1) has
RoomOf(n) == <<"R">> \o IntStr(n) \o <<" ", "-", " ", "k">>
ElemOf(n) == << <<"M">>, <<"c", "s", " ", "V">>, RoomOf(n) >>

\* the pages of n courses: every course has the lecture in R with teacher h
\* and a lecture of its own at the same time
CoursePages(n) ==
    [c \in 1..n |->
        [headline |-> Headline(c - 1),
         table |-> <<[week |-> KW3,
                      rows |-> <<Row(Time1, <<>>, <<ElemCsRh, ElemOf(c)>>)>>]>>]]

FetchFeeds == {CoursePages(2), CoursePages(MaxCourses)}

InitFetch ==
    /\ pc = "fetch"
    /\ feed \in FetchFeeds
    /\ argv = RawArgs(1, 1, <<StrAll>>, <<>>, FALSE, TRUE)
    /\ args = argv
    /\ soups = None
    /\ week = 0
    /\ tables = None
    /\ table = None
    /\ table_data = <<>>
    /\ times = None
    /\ now = None
    /\ begin_date = None
    /\ calendar = <<>>
    /\ output = None
    /\ error = NoError
    /\ NoPool

NextFetch ==
    \/ Fetch
    \/ MakeAsyncMap
    \/ AsyncApply
    \/ Sleep
    \/ WorkerTake
    \/ WorkerDone
    \/ SyncGet
    \/ AsyncReturn
    \/ IterateTables
    \/ JoinTables
    \/ FilterLectures
    \/ Output

SpecFetch == InitFetch /\ [][NextFetch]_vars

(***************************************************************************)
(* Properties                                                              *)
(***************************************************************************)
Range(seq) == {seq[i] : i \in DOMAIN seq}
Last(seq) == seq[Len(seq)]

\* the lecture dict without its source
Untagged(lecture) == [k \in DOMAIN lecture \ {"source"} |-> lecture[k]]

\* the schedules of the sources that the run of Spec reads, and the
\* lectures that the schedule of one source holds on weekday x at a time
\* (none if it has no such row)
SourceTables == [s \in DOMAIN soups |-> iterateTable(soups[s].table[1])]
LecturesAt(schedule, x, time) ==
    IF time \in DOMAIN schedule.data[x] THEN schedule.data[x][time] ELSE <<>>

Joined == pc \in {"filter", "output", "done"} \/ (pc = "failed" /\ error.at = "filter")

\* C1: joinTables keeps, for every weekday and time, exactly one lecture per
\* room that any source holds there, tagged with the first source that holds
\* the room, the lectures in the order of the sources
C1_JoinFirstSourceWins ==
    Joined =>
        \E src \in {SourceTables} :
        \E times_ \in {UNION {Range(src[s].order) : s \in DOMAIN src}} :
        \A x \in 1..5 :
            /\ DOMAIN table.data[x] = times_
            /\ \A time \in times_ :
                LET merged == table.data[x][time]
                    holds(s, room) == room \in Rooms(LecturesAt(src[s], x, time))
                IN  /\ \A i, j \in DOMAIN merged : merged[i].room = merged[j].room => i = j
                    /\ Rooms(merged) =
                           UNION {Rooms(LecturesAt(src[s], x, time)) : s \in DOMAIN src}
                    /\ \A i \in DOMAIN merged :
                           /\ holds(merged[i].source + 1, merged[i].room)
                           /\ \A s \in DOMAIN src :
                                  holds(s, merged[i].room) => merged[i].source + 1 <= s
                           /\ \E k \in DOMAIN LecturesAt(src[merged[i].source + 1], x, time) :
                                  Untagged(merged[i]) =
                                      LecturesAt(src[merged[i].source + 1], x, time)[k]
                    /\ \A i, j \in DOMAIN merged : i < j => merged[i].source <= merged[j].source

\* two sources hold different lectures in the same room at the same time;
\* the merged list holds the one of the first source
C1_Witness ==
    /\ pc = "done"
    /\ Len(soups) = 2
    /\ \E src \in {SourceTables} :
       \E x \in 1..5, time \in Range(src[1].order) :
          /\ Len(LecturesAt(src[1], x, time)) = 1
          /\ Len(LecturesAt(src[2], x, time)) = 1
          /\ LecturesAt(src[1], x, time)[1].room = LecturesAt(src[2], x, time)[1].room
          /\ LecturesAt(src[1], x, time)[1] # LecturesAt(src[2], x, time)[1]
          /\ table.data[x][time] = <<Tagged(LecturesAt(src[1], x, time)[1], 0)>>

Iterated == pc \in {"join", "filter", "output", "done"} \/ (pc = "failed" /\ error.at = "filter")
Filtered == pc \in {"output", "done"} /\ table_data # <<>>

\* the index (from 1) of the week that tables was read from
WeekRead == IF pc \in {"output", "done"} THEN week ELSE week + 1

KeysAreOrder(schedule) ==
    \A x \in 1..5 : DOMAIN schedule.data[x] = Range(schedule.order)

\* C4 as amended: the schedule iterateTable makes of a source has the order
\* and week of that source's own table and in every weekday exactly the
\* keys of its order; the schedule joinTables makes has the order and week
\* of the first source and in every weekday the times of all sources as
\* keys, which are exactly the keys of order when every source's times
\* occur among the first's; the schedule filterLectures makes of it has the
\* order and week of the first source and exactly the keys of order
C4_ScheduleKeys ==
    /\ Iterated =>
          \A s \in DOMAIN tables :
              /\ tables[s].week = soups[s].table[WeekRead].week
              /\ tables[s].order = [r \in DOMAIN soups[s].table[WeekRead].rows |->
                                       soups[s].table[WeekRead].rows[r].time]
              /\ KeysAreOrder(tables[s])
    /\ Joined =>
          /\ table.order = tables[1].order
          /\ table.week = tables[1].week
          /\ \A x \in 1..5 :
                DOMAIN table.data[x] = UNION {Range(tables[s].order) : s \in DOMAIN tables}
          /\ (\A s \in DOMAIN tables : Range(tables[s].order) \subseteq Range(tables[1].order))
                => KeysAreOrder(table)
    /\ Filtered =>
          /\ Last(table_data).order = tables[1].order
          /\ Last(table_data).week = tables[1].week
          /\ KeysAreOrder(Last(table_data))

\* C4 as stated: every schedule of the pipeline has the first source's order
\* and week and in every weekday exactly the keys of its order
C4_Original ==
    /\ Iterated =>
          \A s \in DOMAIN tables :
              /\ tables[s].order = tables[1].order
              /\ tables[s].week = tables[1].week
              /\ KeysAreOrder(tables[s])
    /\ Joined =>
          /\ table.order = tables[1].order
          /\ table.week = tables[1].week
          /\ KeysAreOrder(table)
    /\ Filtered =>
          /\ Last(table_data).order = tables[1].order
          /\ Last(table_data).week = tables[1].week
          /\ KeysAreOrder(Last(table_data))

\* the second source has fewer rows than the first and another week label;
\* the filtered schedule keeps a lecture and an empty time
C4_Witness ==
    /\ pc = "done"
    /\ Len(tables) = 2
    /\ tables[2].order # tables[1].order
    /\ tables[2].week # tables[1].week
    /\ Range(tables[2].order) \subseteq Range(tables[1].order)
    /\ \E x \in 1..5 : \E t1, t2 \in DOMAIN Last(table_data).data[x] :
          /\ Last(table_data).data[x][t1] # <<>>
          /\ Last(table_data).data[x][t2] = <<>>
          /\ \E l \in DOMAIN table.data[x][t2] : table.data[x][t2][l].source = 1

(***************************************************************************)
(* Properties of the runs with --ical (SpecExport)                         *)
(***************************************************************************)
\* the entries of one week in the order make_ical visits them
weekEntries(weekData) ==
    Concat([x \in 1..5 |->
        LET day_data == weekData.data[x]
            keys == KeySeq(DOMAIN day_data)
        IN  Concat([t \in DOMAIN keys |->
                [k \in DOMAIN day_data[keys[t]] |->
                    [day |-> x - 1, time |-> keys[t], entry |-> day_data[keys[t]][k]]]])])

Exported == pc = "done" /\ output.mode = "ical"

\* the number of days from the first week's Monday to the start of an event
DayOffset(event) == ToOrdinal(event.dtstart) - ToOrdinal(begin_date)

\* C2: the calendar make_ical returns has one event for every entry of every
\* week it is given, the events of the k-th week (from 0) on the five days
\* from the first week's Monday plus 7*k days
C2_AllWeeksExported ==
    Exported =>
        /\ Len(output.vevents) =
               Sum([k \in DOMAIN table_data |-> Len(weekEntries(table_data[k]))])
        /\ \A k \in DOMAIN table_data :
               Cardinality({i \in DOMAIN output.vevents :
                               DayOffset(output.vevents[i]) \in (7 * (k - 1))..(7 * (k - 1) + 4)})
                   = Len(weekEntries(table_data[k]))

\* the schedule filterLectures was given last and the one it returned
FilterReturned == pc \in {"iterate", "output"} /\ table_data # <<>>

\* the segment of room after the separator " - ", trimmed and uppercased
InstructorOf(room) == Upper(Strip(room_regex(room)[2]))

PassesAsStated(lecture) ==
    /\ \/ InList(Upper(lecture.short), UpperAll(args.lectures))
       \/ (Len(args.lectures) > 0 /\ Upper(args.lectures[1]) = ALL)
    /\ ~InList(InstructorOf(lecture.room), UpperAll(args.blacklist))

\* C3: a lecture whose room holds " - " is in the schedule filterLectures
\* returns exactly if its short name or "ALL" is allowed and the segment of
\* its room after " - " is not denied
C3_FilterBySeparator ==
    FilterReturned =>
        \A x \in 1..5 : \A time \in Range(table.order) :
            \A k \in DOMAIN table.data[x][time] :
                LET lecture == table.data[x][time][k]
                IN  room_regex(lecture.room) # <<>> =>
                        (InList(lecture, Last(table_data).data[x][time])
                             <=> PassesAsStated(lecture))

NoSeparator(schedule) ==
    \E x \in 1..5 : \E time \in DOMAIN schedule.data[x] :
        \E k \in DOMAIN schedule.data[x][time] :
            room_regex(schedule.data[x][time][k].room) = <<>>

\* C7: a lecture whose room holds no " - " does not abort the run, neither
\* in filterLectures nor in make_ical
C7_NoSeparatorNeverAborts ==
    /\ (pc = "failed" /\ error.at = "filter" /\ Len(args.lectures) > 0)
           => ~NoSeparator(table)
    /\ (pc = "failed" /\ error.at = "ical_week" /\ error.exc = "AttributeError")
           => ~NoSeparator(table_data[1])

\* C10: with the allow-list ["ALL"] in any letter case and an empty
\* deny-list filterLectures returns a schedule with the order, the week and
\* the lectures of the one it is given
C10_FilterAllIdentity ==
    (Has(args, "lectures") /\ UpperAll(args.lectures) = <<ALL>> /\ args.blacklist = <<>>) =>
        /\ ~(pc = "failed" /\ error.at = "filter")
        /\ FilterReturned =>
              /\ Last(table_data).order = table.order
              /\ Last(table_data).week = table.week
              /\ \A x \in 1..5 :
                    /\ DOMAIN Last(table_data).data[x] = Range(table.order)
                    /\ \A time \in Range(table.order) :
                          Last(table_data).data[x][time] = table.data[x][time]

\* C5 as amended: in one exported calendar two events carry the same uid
\* exactly if their locations (the part of room before the last " - ",
\* trimmed) and their starts are equal
C5_UidByLocationAndStart ==
    Exported =>
        \E entries \in {weekEntries(table_data[1])} :
            /\ Len(calendar) = Len(entries)
            /\ \A i \in DOMAIN calendar :
                  calendar[i].location = Strip(room_regex(entries[i].entry.room)[1])
            /\ \A i, j \in DOMAIN calendar :
                  (calendar[i].uid = calendar[j].uid)
                      <=> (/\ calendar[i].location = calendar[j].location
                           /\ calendar[i].dtstart = calendar[j].dtstart)

\* C5 as stated: two events whose records have different rooms or whose
\* starts differ do not carry the same uid
C5_Original ==
    Exported =>
        \E entries \in {weekEntries(table_data[1])} :
            \A i, j \in DOMAIN calendar :
                (\/ entries[i].entry.room # entries[j].entry.room
                 \/ calendar[i].dtstart # calendar[j].dtstart)
                    => calendar[i].uid # calendar[j].uid

\* the lectures in R with teacher h and in R with teacher k at the same time
\* carry one uid, and the lecture in R at another time carries another
C5_Witness ==
    /\ Exported
    /\ \E entries \in {weekEntries(table_data[1])} :
       \E i, j, k \in DOMAIN calendar :
          /\ entries[i].entry.room = RoomRh
          /\ entries[j].entry.room = RoomRk
          /\ calendar[i].uid = calendar[j].uid
          /\ entries[k].entry.room = RoomRh
          /\ calendar[k].dtstart # calendar[i].dtstart
          /\ calendar[k].uid # calendar[i].uid

IcalEnded ==
    /\ Has(args, "ical")
    /\ args.ical
    /\ \/ pc = "done"
       \/ (pc = "failed" /\ error.at \in {"ical_times", "ical_week"})

\* the times of the first week's order that time_regex does not match
BadTimes ==
    {table_data[1].order[t] : t \in {u \in DOMAIN table_data[1].order :
                                          time_regex(table_data[1].order[u]) = <<>>}}
BadCalweek == calweek_regex(table_data[1].week) = <<>>

NothingExported == calendar = <<>> /\ output = None

\* C8 as amended: if a time of the first week's order does not match,
\* make_ical ends in CannotParseTime carrying the first such time; if every
\* time matches and the first week's label does not, it ends in
\* CannotParseCalweek carrying the label; in both cases no event is emitted
\* and no calendar returned
C8_StructuralErrors ==
    IcalEnded =>
        /\ BadTimes # {} =>
              /\ pc = "failed"
              /\ error.exc = "CannotParseTime"
              /\ error.arg \in BadTimes
              /\ \A t \in DOMAIN table_data[1].order :
                    table_data[1].order[t] = error.arg =>
                        \A u \in 1..(t - 1) : table_data[1].order[u] \notin BadTimes
              /\ NothingExported
        /\ (BadTimes = {} /\ BadCalweek) =>
              /\ pc = "failed"
              /\ error.exc = "CannotParseCalweek"
              /\ error.arg = table_data[1].week
              /\ NothingExported

\* C8 as stated: a time that does not match ends make_ical in
\* CannotParseTime, a label that does not match ends it in
\* CannotParseCalweek
C8_Original ==
    IcalEnded =>
        /\ BadTimes # {} =>
              /\ pc = "failed"
              /\ error.exc = "CannotParseTime"
              /\ error.arg \in BadTimes
              /\ NothingExported
        /\ BadCalweek =>
              /\ pc = "failed"
              /\ error.exc = "CannotParseCalweek"
              /\ error.arg = table_data[1].week
              /\ NothingExported

\* the label "KW 3" under times that all match
C8_Witness ==
    /\ IcalEnded
    /\ BadTimes = {}
    /\ pc = "failed"
    /\ error.exc = "CannotParseCalweek"
    /\ error.arg = KWBad
    /\ times # None
    /\ NothingExported

StartAfterStop ==
    /\ Has(argv, "start")
    /\ argv.start \in 1..4
    /\ argv.stop \in 1..4
    /\ argv.start > argv.stop

\* C9 as amended: for a week range with start > stop (each in 1..4) stop is
\* set to start before any source is fetched, and the run goes on to
\* produce the schedule of the week start alone
C9_StopSetToStart ==
    StartAfterStop =>
        /\ args.start = argv.start
        /\ args.stop = argv.start
        /\ ~(pc = "failed" /\ error.exc = "ArgumentError")
        /\ pc = "fetch" => soups = None
        /\ Len(table_data) <= 1
        /\ pc \in {"output", "ical_times", "ical_week", "done"} =>
              /\ Len(table_data) = 1
              /\ table_data[1].week = soups[1].table[argv.start].week

\* C9 as stated: a week range with start > stop is rejected before any
\* source is fetched, and no schedule is produced
C9_Original ==
    StartAfterStop =>
        /\ pc = "failed"
        /\ error.exc = "ArgumentError"
        /\ soups = None
        /\ table_data = <<>>

\* --start 3 --stop 1 prints the schedule of the third week
C9_Witness ==
    /\ pc = "done"
    /\ argv.start = 3
    /\ argv.stop = 1
    /\ Len(table_data) = 1
    /\ table_data[1].week = KW(5)
    /\ Len(soups) = 2

(***************************************************************************)
(* Properties of make_ical's dates (SpecDate)                              *)
(***************************************************************************)
\* the ordinal of the Monday on or before 4 January of a year
MondayOfWeekOne(year) ==
    LET jan4 == ToOrdinal(DateTime(year, 1, 4, 0, 0, 0))
    IN  CHOOSE o \in (jan4 - 6)..jan4 : (o - 1) % 7 = 0

\* C6: for the label "<N>. KW" and any current date, begin_date is midnight
\* of the Monday on or before 4 January of the current year plus N-1 weeks
\* (the week of the year's first Thursday is week 1), and the event of
\* weekday d in the slot "h1.m1 - h2.m2" starts d days later at h1:m1 and
\* ends the same day at h2:m2
C6_AnchorAndEventTimes ==
    pc = "done" =>
        \E n \in {ToInt(calweek_regex(table_data[1].week)[1])} :
        \E slot \in {sl \in SlotPool : sl.text = table_data[1].order[1]} :
        \E d \in {dd \in Days : table_data[1].data[dd + 1][slot.text] # <<>>} :
            /\ table_data = <<OneLectureWeek(n, d, slot)>>
            /\ \E monday \in {MondayOfWeekOne(now.year) + 7 * (n - 1)} :
                  /\ FromOrdinal(MondayOfWeekOne(now.year) + 3).year = now.year
                  /\ FromOrdinal(MondayOfWeekOne(now.year) + 3).day <= 7
                  /\ ToOrdinal(begin_date) = monday
                  /\ Weekday(begin_date) = 0
                  /\ begin_date.hour = 0 /\ begin_date.minute = 0 /\ begin_date.second = 0
                  /\ Len(calendar) = 1
                  /\ ToOrdinal(calendar[1].dtstart) = monday + d
                  /\ calendar[1].dtstart.hour = slot.h1
                  /\ calendar[1].dtstart.minute = slot.m1
                  /\ calendar[1].dtstart.second = 0
                  /\ ToOrdinal(calendar[1].dtend) = monday + d
                  /\ calendar[1].dtend.hour = slot.h2
                  /\ calendar[1].dtend.minute = slot.m2
                  /\ calendar[1].dtend.second = 0

\* in 2024 the label "2. KW" gives Monday 2024-01-08, and the slot
\* "8.00 - 9.30" on Monday an event from 08:00 to 09:30 of that day
C6_Witness ==
    /\ pc = "done"
    /\ now = DateTime(2024, 7, 31, 23, 59, 59)
    /\ table_data[1].week = KW(2)
    /\ begin_date = DateTime(2024, 1, 8, 0, 0, 0)
    /\ Len(calendar) = 1
    /\ calendar[1].dtstart = DateTime(2024, 1, 8, 8, 0, 0)
    /\ calendar[1].dtend = DateTime(2024, 1, 8, 9, 30, 0)

(***************************************************************************)
(* Properties of the fetch by the pool (SpecFetch)                         *)
(***************************************************************************)
Busy == {w \in DOMAIN pool : pool[w] # 0}

FetchReturned == pc \in {"iterate", "join", "filter", "output", "done"}

\* C11: at most 5 workers run at once; the tasks are handed to the pool one
\* at a time in the order of the courses, each at least one sleep after the
\* one before; whatever the order in which the tasks end, the list returned
\* holds the page of the i-th course at position i, so that the source
\* joinTables gives a lecture is the position of a course whose page holds
\* it, and the headline printed for that source is that course's
C11_FetchOrder ==
    /\ Cardinality(Busy) <= 5
    /\ \A w, v \in Busy : pool[w] = pool[v] => w = v
    /\ Len(results) - elapsed \in {0, 1}
    /\ \A i \in DOMAIN applied_at : i > 1 => applied_at[i] >= applied_at[i - 1] + 1
    /\ \A i, j \in DOMAIN taskqueue : i < j => taskqueue[i] < taskqueue[j]
    /\ \A i \in DOMAIN results : results[i].ready => results[i].value = feed[i]
    /\ \A i \in DOMAIN got : got[i] = feed[i]
    /\ FetchReturned =>
          /\ Len(soups) = Len(feed)
          /\ \A i \in DOMAIN soups : soups[i] = feed[i]
    /\ Joined =>
          \A x \in 1..5 : \A time \in DOMAIN table.data[x] :
              \A k \in DOMAIN table.data[x][time] :
                  \E lecture \in {table.data[x][time][k]} :
                  \E page \in {iterateTable(feed[lecture.source + 1].table[1])} :
                      /\ lecture.room \in Rooms(LecturesAt(page, x, time))
                      /\ Headlines[lecture.source + 1] = feed[lecture.source + 1].headline
    /\ pc = "done" =>
          \A i \in DOMAIN feed : output.headlines[i] = feed[i].headline

\* the pages of more than eight courses were fetched by the pool, and the
\* lecture of the last course carries the last position as its source
C11_Witness ==
    /\ pc = "done"
    /\ Len(feed) = MaxCourses
    /\ Len(feed) > 8
    /\ Len(pool) = 5
    /\ elapsed = MaxCourses
    /\ got = feed
    /\ \E k \in DOMAIN table.data[5][Time1] :
          /\ table.data[5][Time1][k].room = RoomOf(MaxCourses)
          /\ table.data[5][Time1][k].source = MaxCourses - 1
    /\ output.headlines[MaxCourses] = Headline(MaxCourses - 1)

====
